---- MODULE Spec2Model ----
(***************************************************************************)
(* A model of the spacesim core: Tank (finite propellant reservoir),       *)
(* Engine (two-stage combustion, a Temporal) and Clock (interval-timer     *)
(* scheduler), as written in src/js/app.js.                                *)
(*                                                                         *)
(* JavaScript numbers are modelled as exact rationals extended with NaN    *)
(* and the two infinities, so that 0/0, x/0 and Math.min keep their        *)
(* JavaScript meaning.  IEEE-754 rounding is not modelled.                 *)
(***************************************************************************)
EXTENDS Integers, Sequences, FiniteSets, TLC

(* ------------------------------------------------------------------ *)
(* Numbers: <<n, d>> with d > 0 and gcd(|n|, d) = 1 is the rational n/d;  *)
(* <<0, 0>> is NaN, <<1, 0>> is +Infinity, <<-1, 0>> is -Infinity.        *)
(* ------------------------------------------------------------------ *)

Abs(i) == IF i < 0 THEN -i ELSE i

Sgn(i) == IF i < 0 THEN -1 ELSE IF i > 0 THEN 1 ELSE 0

RECURSIVE GCD(_, _)
GCD(a, b) == IF b = 0 THEN a ELSE GCD(b, a % b)

Norm(n, d) ==
    IF d = 0 THEN <<Sgn(n), 0>>
    ELSE LET g == GCD(Abs(n), Abs(d))
         IN  <<(Sgn(d) * n) \div g, Abs(d) \div g>>

Rat(n, d) == Norm(n, d)

Num(n) == <<n, 1>>

NaN == <<0, 0>>

Zero == <<0, 1>>

One == <<1, 1>>

IsNaN(x) == x = NaN

IsFinite(x) == x[2] > 0

Neg(x) == <<-x[1], x[2]>>

Mul(x, y) ==
    IF x[2] = 0 \/ y[2] = 0 THEN <<Sgn(x[1]) * Sgn(y[1]), 0>>
    ELSE LET g1 == GCD(Abs(x[1]), y[2])
             g2 == GCD(Abs(y[1]), x[2])
         IN  <<(x[1] \div g1) * (y[1] \div g2), (x[2] \div g2) * (y[2] \div g1)>>

Recip(y) ==
    IF y[2] = 0 THEN (IF y[1] = 0 THEN NaN ELSE Zero)
    ELSE IF y[1] = 0 THEN <<1, 0>>
    ELSE <<Sgn(y[1]) * y[2], Abs(y[1])>>

Div(x, y) == Mul(x, Recip(y))

Add(x, y) ==
    IF IsNaN(x) \/ IsNaN(y) THEN NaN
    ELSE IF x[2] = 0 /\ y[2] = 0 THEN (IF x[1] = y[1] THEN x ELSE NaN)
    ELSE IF x[2] = 0 THEN x
    ELSE IF y[2] = 0 THEN y
    ELSE LET g == GCD(x[2], y[2])
         IN  Norm(x[1] * (y[2] \div g) + y[1] * (x[2] \div g), (x[2] \div g) * y[2])

Sub(x, y) == Add(x, Neg(y))

Lt(x, y) ==
    /\ ~IsNaN(x)
    /\ ~IsNaN(y)
    /\ x # y
    /\ Sub(x, y)[1] < 0

Gt(x, y) == Lt(y, x)

Le(x, y) == ~IsNaN(x) /\ ~IsNaN(y) /\ (x = y \/ Lt(x, y))

MathMin(x, y) ==
    IF IsNaN(x) \/ IsNaN(y) THEN NaN
    ELSE IF Lt(y, x) THEN y ELSE x

(* ------------------------------------------------------------------ *)
(* Compounds and tanks                                                    *)
(* ------------------------------------------------------------------ *)

Tanks == {"fuelTank", "oxidizerTank"}

(* A tank of RP-1 built on its own, apart from the two tanks of draw(). *)
Rp1Tank == "rp1Tank"

IsFuel(t) == t \in {"fuelTank", Rp1Tank}

IsOxidizer(t) == t = "oxidizerTank"

density(t) == IF IsFuel(t) THEN Rat(41, 50000) ELSE Rat(57, 50000)

FuelTankKg == 50

OxidizerTankKg == 60

volumeCapacity(t) ==
    IF t = Rp1Tank THEN Div(Num(10000), Rat(820, 1000))
    ELSE IF IsFuel(t) THEN Div(Num(FuelTankKg), density(t))
    ELSE Div(Num(OxidizerTankKg), density(t))

massCapacity(t) == Mul(volumeCapacity(t), density(t))

fillVolume(lv, t, volume) ==
    LET mass == MathMin(Sub(massCapacity(t), lv), Mul(volume, density(t)))
    IN  [level |-> Add(lv, mass), ret |-> Div(mass, density(t))]

fillMassUnclamped(lv, t, m) == [level |-> Add(lv, m), ret |-> m]

fillMassReturnsRequest(lv, t, m) ==
    LET mass == MathMin(Sub(massCapacity(t), lv), m)
    IN  [level |-> Add(lv, mass), ret |-> m]

fillMass(lv, t, m) ==
    LET mass == MathMin(Sub(massCapacity(t), lv), m)
    IN  [level |-> Add(lv, mass), ret |-> mass]

drainVolumeReturnsMass(lv, t, volume) ==
    LET mass == MathMin(lv, Mul(volume, density(t)))
    IN  [level |-> Sub(lv, mass), ret |-> mass]

drainVolume(lv, t, volume) ==
    LET mass == MathMin(lv, Mul(volume, density(t)))
    IN  [level |-> Sub(lv, mass), ret |-> Div(mass, density(t))]

drainMassAllOrNothing(lv, t, m) ==
    LET mass == IF Lt(lv, m) THEN Zero ELSE m
    IN  [level |-> Sub(lv, mass), ret |-> mass]

drainMassReturnsRequest(lv, t, m) ==
    LET mass == MathMin(lv, m)
    IN  [level |-> Sub(lv, mass), ret |-> m]

drainMass(lv, t, m) ==
    LET mass == MathMin(lv, m)
    IN  [level |-> Sub(lv, mass), ret |-> mass]

(* ------------------------------------------------------------------ *)
(* Engines, temporals and the clock: constructor arguments                *)
(* ------------------------------------------------------------------ *)

Engines == {"engineL", "engineR"}

Temporals == Engines \cup {"mfd"}

Null == "null"

NoError == "none"

PREBURNER_TAP_OFF == Rat(5, 100)

ChamberTapOffRounded == Rat(9, 10)

CHAMBER_TAP_OFF == Sub(One, PREBURNER_TAP_OFF)

ThrustNewton == 600

FuelFlowKgS == 20

OxidizerFlowKgS == 40

thrustNominal(e) == Num(ThrustNewton)

fuelFlowNominal(e) == Num(FuelFlowKgS)

oxidizerFlowNominal(e) == Num(OxidizerFlowKgS)

propellantFlowNominal(e) == Add(fuelFlowNominal(e), oxidizerFlowNominal(e))

effectiveExhaustVelocityNominal(e) == Div(thrustNominal(e), propellantFlowNominal(e))

ClockRate == 2

interval == Div(Num(1000), Num(ClockRate))

elapsedPerTick == Div(One, Num(ClockRate))

VARIABLES
    level,                \* Tank.#level, per tank (kg)
    fuelTank,             \* Engine.#fuelTank, per engine: a tank or Null
    oxidizerTank,         \* Engine.#oxidizerTank
    throttle,             \* Engine.#throttle
    preburnerIgnition,    \* Engine.#preburnerIgnition
    chamberIgnition,      \* Engine.#chamberIgnition
    preburnerCombustion,  \* Engine.#preburnerCombustion
    chamberCombustion,    \* Engine.#chamberCombustion
    temporals,            \* Clock.#temporals
    id,                   \* Clock.#id: "undefined", Null or an interval handle
    timers,               \* the interval timers of the host that are active
    last,                 \* the last call or firing and what it returned, raised and logged
    nticks                \* how many firings and direct tick calls have happened

vars == <<level, fuelTank, oxidizerTank, throttle, preburnerIgnition, chamberIgnition,
          preburnerCombustion, chamberCombustion, temporals, id, timers, last, nticks>>

tankVars == <<level>>

engineVars == <<fuelTank, oxidizerTank, throttle, preburnerIgnition, chamberIgnition,
                preburnerCombustion, chamberCombustion>>

clockVars == <<temporals, id, timers>>

MaxTicks == 3

MaxTemporals == 2

isRunning == id \notin {"undefined", Null}

(* What the last call or firing was given, returned and raised, what it   *)
(* logged, and the levels and clock state it started from (pre).          *)
Event(op, obj, arg, ret, err) ==
    [op |-> op, obj |-> obj, arg |-> arg, ret |-> ret, err |-> err,
     ticked |-> <<>>, console |-> <<>>, drains |-> <<>>,
     pre |-> [level |-> level, pbc |-> preburnerCombustion, chc |-> chamberCombustion,
              isRunning |-> isRunning, timers |-> timers]]

Init ==
    /\ level = [t \in Tanks |-> Zero]
    /\ fuelTank = [e \in Engines |-> Null]
    /\ oxidizerTank = [e \in Engines |-> Null]
    /\ throttle = [e \in Engines |-> Zero]
    /\ preburnerIgnition = [e \in Engines |-> FALSE]
    /\ chamberIgnition = [e \in Engines |-> FALSE]
    /\ preburnerCombustion = [e \in Engines |-> Zero]
    /\ chamberCombustion = [e \in Engines |-> Zero]
    /\ temporals = <<>>
    /\ id = "undefined"
    /\ timers = {}
    /\ last = Event("new", Null, NaN, NaN, NoError)
    /\ nticks = 0

(* ------------------------------------------------------------------ *)
(* Tank operations called from outside                                    *)
(* ------------------------------------------------------------------ *)

TankCall(op, t, amount, r) ==
    /\ level' = [level EXCEPT ![t] = r.level]
    /\ last' = Event(op, t, amount, r.ret, NoError)
    /\ UNCHANGED <<engineVars, clockVars, nticks>>

FillVolume(t, volume) == TankCall("fillVolume", t, volume, fillVolume(level[t], t, volume))

FillMass(t, mass) == TankCall("fillMass", t, mass, fillMass(level[t], t, mass))

DrainVolume(t, volume) == TankCall("drainVolume", t, volume, drainVolume(level[t], t, volume))

DrainMass(t, mass) == TankCall("drainMass", t, mass, drainMass(level[t], t, mass))

(* ------------------------------------------------------------------ *)
(* Engine: setters                                                        *)
(* ------------------------------------------------------------------ *)

(* A value that is not a Tank (a number, a string, undefined). *)
NotATank == "notATank"

(* What the checks of a tank setter throw for the value assigned. *)
tankError(tank, rightCompound) ==
    IF tank = Null THEN NoError
    ELSE IF tank \notin Tanks THEN "TypeError"
    ELSE IF ~rightCompound THEN "RangeError"
    ELSE NoError

SetFuelTankAssignsFirst(e, tank) ==
    /\ fuelTank' = [fuelTank EXCEPT ![e] = tank]
    /\ IF tankError(tank, IsFuel(tank)) # NoError
       THEN last' = Event("set fuelTank", e, tank, NaN, tankError(tank, IsFuel(tank)))
       ELSE last' = Event("set", e, NaN, NaN, NoError)
    /\ UNCHANGED <<level, oxidizerTank, throttle, preburnerIgnition, chamberIgnition,
                   preburnerCombustion, chamberCombustion, clockVars, nticks>>

SetFuelTank(e, tank) ==
    /\ IF tankError(tank, IsFuel(tank)) # NoError
       THEN /\ last' = Event("set fuelTank", e, tank, NaN, tankError(tank, IsFuel(tank)))
            /\ UNCHANGED fuelTank
       ELSE /\ fuelTank' = [fuelTank EXCEPT ![e] = tank]
            /\ last' = Event("set", e, NaN, NaN, NoError)
    /\ UNCHANGED <<level, oxidizerTank, throttle, preburnerIgnition, chamberIgnition,
                   preburnerCombustion, chamberCombustion, clockVars, nticks>>

SetOxidizerTank(e, tank) ==
    /\ IF tankError(tank, IsOxidizer(tank)) # NoError
       THEN /\ last' = Event("set oxidizerTank", e, tank, NaN,
                             tankError(tank, IsOxidizer(tank)))
            /\ UNCHANGED oxidizerTank
       ELSE /\ oxidizerTank' = [oxidizerTank EXCEPT ![e] = tank]
            /\ last' = Event("set", e, NaN, NaN, NoError)
    /\ UNCHANGED <<level, fuelTank, throttle, preburnerIgnition, chamberIgnition,
                   preburnerCombustion, chamberCombustion, clockVars, nticks>>

SetThrottle(e, lvl) ==
    /\ IF Lt(lvl, Zero) \/ Gt(lvl, One)
       THEN /\ last' = Event("set throttle", e, lvl, NaN, "RangeError")
            /\ UNCHANGED throttle
       ELSE /\ throttle' = [throttle EXCEPT ![e] = lvl]
            /\ last' = Event("set", e, NaN, NaN, NoError)
    /\ UNCHANGED <<level, fuelTank, oxidizerTank, preburnerIgnition, chamberIgnition,
                   preburnerCombustion, chamberCombustion, clockVars, nticks>>

SetPreburnerIgnition(e, active) ==
    /\ preburnerIgnition' = [preburnerIgnition EXCEPT ![e] = active]
    /\ last' = Event("set", e, NaN, NaN, NoError)
    /\ UNCHANGED <<level, fuelTank, oxidizerTank, throttle, chamberIgnition,
                   preburnerCombustion, chamberCombustion, clockVars, nticks>>

SetChamberIgnition(e, active) ==
    /\ chamberIgnition' = [chamberIgnition EXCEPT ![e] = active]
    /\ last' = Event("set", e, NaN, NaN, NoError)
    /\ UNCHANGED <<level, fuelTank, oxidizerTank, throttle, preburnerIgnition,
                   preburnerCombustion, chamberCombustion, clockVars, nticks>>

(* ------------------------------------------------------------------ *)
(* Engine: derived read accessors                                         *)
(* ------------------------------------------------------------------ *)

thrustLevelOf(pbc, chc) == Add(Mul(pbc, PREBURNER_TAP_OFF), Mul(chc, CHAMBER_TAP_OFF))

thrustLevel(e) == thrustLevelOf(preburnerCombustion[e], chamberCombustion[e])

thrust(e) == Mul(thrustNominal(e), thrustLevel(e))

fuelFlowOneTapOff(e) ==
    Add(Mul(Mul(fuelFlowNominal(e), PREBURNER_TAP_OFF), preburnerCombustion[e]),
        Mul(Mul(fuelFlowNominal(e), PREBURNER_TAP_OFF), chamberCombustion[e]))

fuelFlow(e) ==
    Add(Mul(Mul(fuelFlowNominal(e), PREBURNER_TAP_OFF), preburnerCombustion[e]),
        Mul(Mul(fuelFlowNominal(e), CHAMBER_TAP_OFF), chamberCombustion[e]))

oxidizerFlow(e) ==
    Add(Mul(Mul(oxidizerFlowNominal(e), PREBURNER_TAP_OFF), preburnerCombustion[e]),
        Mul(Mul(oxidizerFlowNominal(e), CHAMBER_TAP_OFF), chamberCombustion[e]))

propellantFlow(e) ==
    Add(Mul(Mul(propellantFlowNominal(e), PREBURNER_TAP_OFF), preburnerCombustion[e]),
        Mul(Mul(propellantFlowNominal(e), CHAMBER_TAP_OFF), chamberCombustion[e]))

effectiveExhaustVelocity(e) ==
    Add(Mul(Mul(effectiveExhaustVelocityNominal(e), PREBURNER_TAP_OFF), preburnerCombustion[e]),
        Mul(Mul(effectiveExhaustVelocityNominal(e), CHAMBER_TAP_OFF), chamberCombustion[e]))

specificImpulse(e, g) == Mul(Div(thrust(e), propellantFlow(e)), g)

Accessors ==
    {"thrust", "thrustLevel", "fuelFlow", "oxidizerFlow", "propellantFlow",
     "effectiveExhaustVelocity", "specificImpulse"}

read(e, accessor, g) ==
    CASE accessor = "thrust" -> thrust(e)
      [] accessor = "thrustLevel" -> thrustLevel(e)
      [] accessor = "fuelFlow" -> fuelFlow(e)
      [] accessor = "oxidizerFlow" -> oxidizerFlow(e)
      [] accessor = "propellantFlow" -> propellantFlow(e)
      [] accessor = "effectiveExhaustVelocity" -> effectiveExhaustVelocity(e)
      [] accessor = "specificImpulse" -> specificImpulse(e, g)

ReadResettingThrottle(e, accessor, g) ==
    /\ last' = Event(accessor, e, g, read(e, accessor, g), NoError)
    /\ throttle' = [throttle EXCEPT ![e] = thrustLevel(e)]
    /\ UNCHANGED <<tankVars, fuelTank, oxidizerTank, preburnerIgnition, chamberIgnition,
                   preburnerCombustion, chamberCombustion, clockVars, nticks>>

(* One read of a derived accessor; g is the argument of specificImpulse. *)
Read(e, accessor, g) ==
    /\ last' = Event(accessor, e, g, read(e, accessor, g), NoError)
    /\ UNCHANGED <<tankVars, engineVars, clockVars, nticks>>

(* ------------------------------------------------------------------ *)
(* Engine.tick, computed on a record w of the state a tick reads and      *)
(* writes: w.level, w.pbc (preburnerCombustion), w.chc                    *)
(* (chamberCombustion), w.err (the error thrown, if any), w.mixture (what *)
(* #pump returned) and w.drains (the drainMass calls made, in order).     *)
(* ------------------------------------------------------------------ *)

World ==
    [level |-> level, pbc |-> preburnerCombustion, chc |-> chamberCombustion,
     err |-> NoError, mixture |-> NaN, drains |-> <<>>]

Drain(w, e, stage, t, mass) ==
    LET r == drainMass(w.level[t], t, mass)
    IN  [w EXCEPT !.level[t] = r.level,
                  !.drains = Append(@, [engine |-> e, stage |-> stage, tank |-> t,
                                        requested |-> mass, returned |-> r.ret,
                                        before |-> w.level[t]])]

Returned(w, k) == w.drains[Len(w.drains) - k].returned

Throw(w, error) == [w EXCEPT !.err = error]

alwaysLit(ignition, combustion) == TRUE

ignitedOnly(ignition, combustion) == ignition

selfSustainedOrIgnited(ignition, combustion) == ignition \/ Gt(combustion, Zero)

(* Const(v, F) is F(v) with v evaluated once and bound, the way a        *)
(* JavaScript const is.                                                   *)
Const(v, F(_)) == CHOOSE r \in {F(x) : x \in {v}} : TRUE

selfSustainedHolding(ignition, combustion, supply) ==
    IF selfSustainedOrIgnited(ignition, combustion)
    THEN (IF supply = Zero THEN combustion ELSE supply)
    ELSE Zero

selfSustained(ignition, combustion, supply) ==
    IF selfSustainedOrIgnited(ignition, combustion) THEN supply ELSE Zero

preburnerBurnByRequest(w, e, elapsed) ==
    Const(Mul(PREBURNER_TAP_OFF, elapsed), LAMBDA a :
    Const(Mul(a, throttle[e]), LAMBDA b :
    Const(Drain(w, e, "preburner", fuelTank[e], Mul(fuelFlowNominal(e), b)), LAMBDA w1 :
    Const(Drain(w1, e, "preburner", oxidizerTank[e], Mul(oxidizerFlowNominal(e), b)), LAMBDA w2 :
    Const(Div(Returned(w2, 1), Mul(fuelFlowNominal(e), b)), LAMBDA fuelSupply :
    Const(Div(Returned(w2, 0), Mul(oxidizerFlowNominal(e), b)), LAMBDA oxidizerSupply :
        [w2 EXCEPT !.pbc[e] = selfSustained(preburnerIgnition[e], w.pbc[e],
                                            MathMin(fuelSupply, oxidizerSupply))]))))))

preburnerBurnOnlyWhenLit(w, e, elapsed) ==
    IF ~selfSustainedOrIgnited(preburnerIgnition[e], w.pbc[e])
    THEN Drain(Drain(w, e, "preburner", fuelTank[e], Zero), e, "preburner", oxidizerTank[e], Zero)
    ELSE
    Const(Mul(PREBURNER_TAP_OFF, elapsed), LAMBDA a :
    Const(Mul(a, throttle[e]), LAMBDA b :
    Const(Drain(w, e, "preburner", fuelTank[e], Mul(fuelFlowNominal(e), b)), LAMBDA w1 :
    Const(Drain(w1, e, "preburner", oxidizerTank[e], Mul(oxidizerFlowNominal(e), b)), LAMBDA w2 :
    Const(Div(Returned(w2, 1), Mul(fuelFlowNominal(e), a)), LAMBDA fuelSupply :
    Const(Div(Returned(w2, 0), Mul(oxidizerFlowNominal(e), a)), LAMBDA oxidizerSupply :
        [w2 EXCEPT !.pbc[e] = MathMin(fuelSupply, oxidizerSupply)]))))))

preburnerBurn(w, e, elapsed) ==
    Const(Mul(PREBURNER_TAP_OFF, elapsed), LAMBDA a :
    Const(Mul(a, throttle[e]), LAMBDA b :
    Const(Drain(w, e, "preburner", fuelTank[e], Mul(fuelFlowNominal(e), b)), LAMBDA w1 :
    Const(Drain(w1, e, "preburner", oxidizerTank[e], Mul(oxidizerFlowNominal(e), b)), LAMBDA w2 :
    Const(Div(Returned(w2, 1), Mul(fuelFlowNominal(e), a)), LAMBDA fuelSupply :
    Const(Div(Returned(w2, 0), Mul(oxidizerFlowNominal(e), a)), LAMBDA oxidizerSupply :
        [w2 EXCEPT !.pbc[e] = selfSustained(preburnerIgnition[e], w.pbc[e],
                                            MathMin(fuelSupply, oxidizerSupply))]))))))

preburnerChecksOxidizerFirst(w, e, elapsed) ==
    IF oxidizerTank[e] = Null THEN Throw(w, "NoOxidizerTankConnectedError")
    ELSE IF fuelTank[e] = Null THEN Throw(w, "NoFuelTankConnectedError")
    ELSE preburnerBurn(w, e, elapsed)

preburnerChecksOxidizerLate(w, e, elapsed) ==
    IF fuelTank[e] = Null THEN Throw(w, "NoFuelTankConnectedError")
    ELSE IF oxidizerTank[e] = Null
    THEN Throw(Drain(w, e, "preburner", fuelTank[e],
                     Mul(fuelFlowNominal(e), Mul(Mul(PREBURNER_TAP_OFF, elapsed), throttle[e]))),
               "NoOxidizerTankConnectedError")
    ELSE preburnerBurn(w, e, elapsed)

preburner(w, e, elapsed) ==
    IF fuelTank[e] = Null THEN Throw(w, "NoFuelTankConnectedError")
    ELSE IF oxidizerTank[e] = Null THEN Throw(w, "NoOxidizerTankConnectedError")
    ELSE preburnerBurn(w, e, elapsed)

pumpDrainIgnoresFuel(w, e, elapsed) ==
    Const(Mul(CHAMBER_TAP_OFF, elapsed), LAMBDA a :
    Const(Mul(a, w.pbc[e]), LAMBDA b :
    Const(Drain(w, e, "pump", fuelTank[e], Mul(fuelFlowNominal(e), b)), LAMBDA w1 :
    Const(Drain(w1, e, "pump", oxidizerTank[e], Mul(oxidizerFlowNominal(e), b)), LAMBDA w2 :
    Const(Div(Returned(w2, 0), Mul(oxidizerFlowNominal(e), a)), LAMBDA oxidizerSupply :
        [w2 EXCEPT !.mixture = oxidizerSupply])))))

pumpDrainByThrottle(w, e, elapsed) ==
    Const(Mul(CHAMBER_TAP_OFF, elapsed), LAMBDA a :
    Const(Mul(a, throttle[e]), LAMBDA b :
    Const(Drain(w, e, "pump", fuelTank[e], Mul(fuelFlowNominal(e), b)), LAMBDA w1 :
    Const(Drain(w1, e, "pump", oxidizerTank[e], Mul(oxidizerFlowNominal(e), b)), LAMBDA w2 :
    Const(Div(Returned(w2, 1), Mul(fuelFlowNominal(e), a)), LAMBDA fuelSupply :
    Const(Div(Returned(w2, 0), Mul(oxidizerFlowNominal(e), a)), LAMBDA oxidizerSupply :
        [w2 EXCEPT !.mixture = MathMin(fuelSupply, oxidizerSupply)]))))))

pumpDrainByRequest(w, e, elapsed) ==
    Const(Mul(CHAMBER_TAP_OFF, elapsed), LAMBDA a :
    Const(Mul(a, w.pbc[e]), LAMBDA b :
    Const(Drain(w, e, "pump", fuelTank[e], Mul(fuelFlowNominal(e), b)), LAMBDA w1 :
    Const(Drain(w1, e, "pump", oxidizerTank[e], Mul(oxidizerFlowNominal(e), b)), LAMBDA w2 :
    Const(Div(Returned(w2, 1), Mul(fuelFlowNominal(e), b)), LAMBDA fuelSupply :
    Const(Div(Returned(w2, 0), Mul(oxidizerFlowNominal(e), b)), LAMBDA oxidizerSupply :
        [w2 EXCEPT !.mixture = MathMin(fuelSupply, oxidizerSupply)]))))))

pumpDrain(w, e, elapsed) ==
    Const(Mul(CHAMBER_TAP_OFF, elapsed), LAMBDA a :
    Const(Mul(a, w.pbc[e]), LAMBDA b :
    Const(Drain(w, e, "pump", fuelTank[e], Mul(fuelFlowNominal(e), b)), LAMBDA w1 :
    Const(Drain(w1, e, "pump", oxidizerTank[e], Mul(oxidizerFlowNominal(e), b)), LAMBDA w2 :
    Const(Div(Returned(w2, 1), Mul(fuelFlowNominal(e), a)), LAMBDA fuelSupply :
    Const(Div(Returned(w2, 0), Mul(oxidizerFlowNominal(e), a)), LAMBDA oxidizerSupply :
        [w2 EXCEPT !.mixture = MathMin(fuelSupply, oxidizerSupply)]))))))

pump(w, e, elapsed) ==
    IF fuelTank[e] = Null THEN Throw(w, "NoFuelTankConnectedError")
    ELSE IF oxidizerTank[e] = Null THEN Throw(w, "NoOxidizerTankConnectedError")
    ELSE pumpDrain(w, e, elapsed)

chamber(w, e, mixture) ==
    IF Lt(mixture, Zero) \/ Gt(mixture, One) THEN Throw(w, "RangeError")
    ELSE [w EXCEPT !.chc[e] = selfSustained(chamberIgnition[e], w.chc[e], mixture)]

tickThrowingWhenStarved(w, e, elapsed) ==
    Const(preburner(w, e, elapsed), LAMBDA p :
        IF p.err # NoError THEN p
        ELSE Const(pump(p, e, elapsed), LAMBDA q :
                 IF q.err # NoError THEN q
                 ELSE IF \E k \in 1..Len(q.drains) :
                            Lt(q.drains[k].returned, q.drains[k].requested)
                 THEN Throw(chamber(q, e, q.mixture), "OutOfPropellantError")
                 ELSE chamber(q, e, q.mixture)))

tick(w, e, elapsed) ==
    Const(preburner(w, e, elapsed), LAMBDA p :
        IF p.err # NoError THEN p
        ELSE Const(pump(p, e, elapsed), LAMBDA q :
                 IF q.err # NoError THEN q ELSE chamber(q, e, q.mixture)))

Tick(e, elapsed) ==
    \E w \in {tick(World, e, elapsed)} :
        /\ nticks < MaxTicks
        /\ nticks' = nticks + 1
        /\ level' = w.level
        /\ preburnerCombustion' = w.pbc
        /\ chamberCombustion' = w.chc
        /\ last' = [Event("tick", e, elapsed, NaN, w.err) EXCEPT !.drains = w.drains]
        /\ UNCHANGED <<fuelTank, oxidizerTank, throttle, preburnerIgnition, chamberIgnition,
                       clockVars>>

(* ------------------------------------------------------------------ *)
(* Clock                                                                  *)
(* ------------------------------------------------------------------ *)

(* setInterval returns a handle that no active timer has. *)
setInterval == CHOOSE h \in {"interval1", "interval2"} : h \notin timers

RegisterFirst(t) ==
    /\ Len(temporals) < MaxTemporals
    /\ temporals' = <<t>> \o temporals
    /\ last' = Event("register", t, NaN, NaN, NoError)
    /\ UNCHANGED <<tankVars, engineVars, id, timers, nticks>>

Register(t) ==
    /\ Len(temporals) < MaxTemporals
    /\ temporals' = Append(temporals, t)
    /\ last' = Event("register", t, NaN, NaN, NoError)
    /\ UNCHANGED <<tankVars, engineVars, id, timers, nticks>>

StartUnguarded ==
    /\ LET handle == setInterval
       IN  /\ id' = handle
           /\ timers' = timers \cup {handle}
           /\ last' = Event("start", "clock", NaN, NaN, NoError)
    /\ UNCHANGED <<tankVars, engineVars, temporals, nticks>>

Start ==
    /\ IF isRunning
       THEN /\ last' = Event("start", "clock", NaN, NaN, "IllegalStateError")
            /\ UNCHANGED <<id, timers>>
       ELSE LET handle == setInterval
            IN  /\ id' = handle
                /\ timers' = timers \cup {handle}
                /\ last' = Event("start", "clock", NaN, NaN, NoError)
    /\ UNCHANGED <<tankVars, engineVars, temporals, nticks>>

StopAsDocumented ==
    /\ IF ~isRunning
       THEN /\ last' = Event("stop", "clock", NaN, NaN, "IllegalStateError")
            /\ UNCHANGED <<id, timers>>
       ELSE /\ timers' = timers \ {id}
            /\ id' = Null
            /\ last' = Event("stop", "clock", NaN, NaN, NoError)
    /\ UNCHANGED <<tankVars, engineVars, temporals, nticks>>

Stop ==
    /\ IF isRunning
       THEN /\ last' = Event("stop", "clock", NaN, NaN, "IllegalStateError")
            /\ UNCHANGED <<id, timers>>
       ELSE /\ timers' = timers \ {id}
            /\ id' = Null
            /\ last' = Event("stop", "clock", NaN, NaN, NoError)
    /\ UNCHANGED <<tankVars, engineVars, temporals, nticks>>

temporalTick(w, t, elapsed) == IF t \in Engines THEN tick(w, t, elapsed) ELSE w

loggedSilently(f, t, r) ==
    [w |-> [r EXCEPT !.err = NoError],
     ticked |-> Append(f.ticked, [temporal |-> t, elapsed |-> elapsedPerTick]),
     console |-> f.console]

logged(f, t, r) ==
    [w |-> [r EXCEPT !.err = NoError],
     ticked |-> Append(f.ticked, [temporal |-> t, elapsed |-> elapsedPerTick]),
     console |-> IF r.err # NoError
                 THEN Append(f.console, [temporal |-> t, error |-> r.err])
                 ELSE f.console]

RECURSIVE forEachReversed(_, _, _)
forEachReversed(f, ts, i) ==
    IF i > Len(ts) THEN f
    ELSE Const(temporalTick(f.w, ts[Len(ts) + 1 - i], elapsedPerTick), LAMBDA r :
         Const(logged(f, ts[Len(ts) + 1 - i], r), LAMBDA g : forEachReversed(g, ts, i + 1)))

RECURSIVE forEachSkippingRepeats(_, _, _)
forEachSkippingRepeats(f, ts, i) ==
    IF i > Len(ts) THEN f
    ELSE IF \E j \in 1..(i - 1) : ts[j] = ts[i] THEN forEachSkippingRepeats(f, ts, i + 1)
    ELSE Const(temporalTick(f.w, ts[i], elapsedPerTick), LAMBDA r :
         Const(logged(f, ts[i], r), LAMBDA g : forEachSkippingRepeats(g, ts, i + 1)))

RECURSIVE forEachUncaught(_, _, _)
forEachUncaught(f, ts, i) ==
    IF i > Len(ts) THEN f
    ELSE Const(temporalTick(f.w, ts[i], elapsedPerTick), LAMBDA r :
         Const(logged(f, ts[i], r), LAMBDA g :
             IF r.err # NoError THEN g ELSE forEachUncaught(g, ts, i + 1)))

RECURSIVE forEach(_, _, _)
forEach(f, ts, i) ==
    IF i > Len(ts) THEN f
    ELSE Const(temporalTick(f.w, ts[i], elapsedPerTick), LAMBDA r :
         Const(logged(f, ts[i], r), LAMBDA g : forEach(g, ts, i + 1)))

clockTick(ts) ==
    Const([w |-> World, ticked |-> <<>>, console |-> <<>>], LAMBDA f : forEach(f, ts, 1))

Fire ==
    /\ timers # {}
    /\ nticks < MaxTicks
    /\ nticks' = nticks + 1
    /\ \E f \in {clockTick(temporals)} :
           /\ level' = f.w.level
           /\ preburnerCombustion' = f.w.pbc
           /\ chamberCombustion' = f.w.chc
           /\ last' = [Event("firing", "clock", elapsedPerTick, NaN, NoError)
                          EXCEPT !.ticked = f.ticked, !.console = f.console,
                                 !.drains = f.w.drains]
    /\ UNCHANGED <<fuelTank, oxidizerTank, throttle, preburnerIgnition, chamberIgnition,
                   clockVars>>

(* draw(), lines 9-31: the tanks are filled (both requests exceed the     *)
(* capacity), both engines are connected to the same two tanks, ignited   *)
(* and set to full throttle; the clock is constructed but nothing is      *)
(* registered with it yet.                                                *)
InitDraw ==
    /\ level = [t \in Tanks |->
                   IF IsFuel(t) THEN fillMass(Zero, t, Num(5 * FuelTankKg)).level
                   ELSE fillMass(Zero, t, Num(2 * OxidizerTankKg)).level]
    /\ fuelTank = [e \in Engines |-> "fuelTank"]
    /\ oxidizerTank = [e \in Engines |-> "oxidizerTank"]
    /\ throttle = [e \in Engines |-> One]
    /\ preburnerIgnition = [e \in Engines |-> TRUE]
    /\ chamberIgnition = [e \in Engines |-> TRUE]
    /\ preburnerCombustion = [e \in Engines |-> Zero]
    /\ chamberCombustion = [e \in Engines |-> Zero]
    /\ temporals = <<>>
    /\ id = "undefined"
    /\ timers = {}
    /\ last = Event("draw", Null, NaN, NaN, NoError)
    /\ nticks = 0

(* ------------------------------------------------------------------ *)
(* Specifications                                                         *)
(* ------------------------------------------------------------------ *)

MassInputs == {Zero, Num(20), Num(60)}

VolumeInputs == {Zero, Num(50000)}

ThrottleInputs == {Zero, Rat(1, 2), One}

ElapsedInputs == {One}

RefillInputs == {Num(60)}

TankInputs == Tanks \cup {Null}

TankNext ==
    \/ \E t \in Tanks, m \in MassInputs : FillMass(t, m)
    \/ \E t \in Tanks, v \in VolumeInputs : FillVolume(t, v)
    \/ \E t \in Tanks, m \in MassInputs : DrainMass(t, m)
    \/ \E t \in Tanks, v \in VolumeInputs : DrainVolume(t, v)

SpecTank == Init /\ [][TankNext]_vars

(* The tank operations check their argument for null and for its type     *)
(* only, so they can be called with any number. The calls are explored    *)
(* while the level is no further than MaxExcess outside [0, capacity].    *)
MaxExcess == 20

AnyMassInputs == MassInputs \cup {Num(0 - 20)}

(* The volume of m kg of the compound of tank t. *)
VolumeOf(t, m) == Div(m, density(t))

WithinReach(t) ==
    /\ Le(Num(0 - MaxExcess), level[t])
    /\ Le(level[t], Add(massCapacity(t), Num(MaxExcess)))

TankAnyNext ==
    \/ \E t \in Tanks, m \in AnyMassInputs : WithinReach(t) /\ FillMass(t, m)
    \/ \E t \in Tanks, m \in AnyMassInputs : WithinReach(t) /\ FillVolume(t, VolumeOf(t, m))
    \/ \E t \in Tanks, m \in AnyMassInputs : WithinReach(t) /\ DrainMass(t, m)
    \/ \E t \in Tanks, m \in AnyMassInputs : WithinReach(t) /\ DrainVolume(t, VolumeOf(t, m))

SpecTankAny == Init /\ [][TankAnyNext]_vars

EngineNext ==
    \/ \E t \in TankInputs : SetFuelTank("engineL", t)
    \/ \E t \in TankInputs : SetOxidizerTank("engineL", t)
    \/ \E l \in ThrottleInputs : SetThrottle("engineL", l)
    \/ \E b \in BOOLEAN : SetPreburnerIgnition("engineL", b)
    \/ \E b \in BOOLEAN : SetChamberIgnition("engineL", b)
    \/ \E t \in Tanks, m \in RefillInputs : FillMass(t, m)
    \/ \E el \in ElapsedInputs : Tick("engineL", el)

SpecEngine == Init /\ [][EngineNext]_vars

(* The behaviours in which no ignition flag is ever set to true. *)
UnignitedNext ==
    \/ \E t \in TankInputs : SetFuelTank("engineL", t)
    \/ \E t \in TankInputs : SetOxidizerTank("engineL", t)
    \/ \E l \in ThrottleInputs : SetThrottle("engineL", l)
    \/ SetPreburnerIgnition("engineL", FALSE)
    \/ SetChamberIgnition("engineL", FALSE)
    \/ \E t \in Tanks, m \in RefillInputs : FillMass(t, m)
    \/ \E el \in ElapsedInputs : Tick("engineL", el)

SpecUnignited == Init /\ [][UnignitedNext]_vars

(* The tank of RP-1 with a capacity of 10000/0.820 mL, empty when built,  *)
(* filled by mass and drained a few kg at a time.                         *)
InitRp1Tank ==
    /\ level = [t \in {Rp1Tank} |-> Zero]
    /\ fuelTank = [e \in Engines |-> Null]
    /\ oxidizerTank = [e \in Engines |-> Null]
    /\ throttle = [e \in Engines |-> Zero]
    /\ preburnerIgnition = [e \in Engines |-> FALSE]
    /\ chamberIgnition = [e \in Engines |-> FALSE]
    /\ preburnerCombustion = [e \in Engines |-> Zero]
    /\ chamberCombustion = [e \in Engines |-> Zero]
    /\ temporals = <<>>
    /\ id = "undefined"
    /\ timers = {}
    /\ last = Event("new", Rp1Tank, NaN, NaN, NoError)
    /\ nticks = 0

Rp1Fills == {Num(50000), Num(20000)}

Rp1Drains == {Num(1), Num(2), Num(3), Num(4), Num(5)}

Rp1TankNext ==
    \/ \E m \in Rp1Fills : FillMass(Rp1Tank, m)
    \/ \E m \in Rp1Drains : DrainMass(Rp1Tank, m)
    \/ \E m \in Rp1Drains : DrainVolume(Rp1Tank, VolumeOf(Rp1Tank, m))

SpecRp1Tank == InitRp1Tank /\ [][Rp1TankNext]_vars

(* One engine of draw(), its setters called with any value of the right   *)
(* kind and its derived accessors read, between ticks.                    *)
AnyTankInputs == TankInputs \cup {NotATank}

AnyThrottleInputs == ThrottleInputs \cup {NaN, Neg(Rat(1, 2)), Num(2)}

StandardGravity == Rat(981, 100)

SettersNext ==
    \/ \E t \in AnyTankInputs : SetFuelTank("engineL", t)
    \/ \E t \in AnyTankInputs : SetOxidizerTank("engineL", t)
    \/ \E l \in AnyThrottleInputs : SetThrottle("engineL", l)
    \/ \E a \in Accessors : Read("engineL", a, StandardGravity)
    \/ \E el \in ElapsedInputs : Tick("engineL", el)

SpecSetters == InitDraw /\ [][SettersNext]_vars

(* One engine of draw() ticked with any number of elapsed seconds, an      *)
(* elapsed time of 0 included (Temporal.tick checks the type only),       *)
(* between changes of its throttle and ignition flags.                    *)
AnyElapsedInputs == ElapsedInputs \cup {Zero}

ZeroDemandNext ==
    \/ \E l \in ThrottleInputs : SetThrottle("engineL", l)
    \/ \E b \in BOOLEAN : SetPreburnerIgnition("engineL", b)
    \/ \E b \in BOOLEAN : SetChamberIgnition("engineL", b)
    \/ \E el \in AnyElapsedInputs : Tick("engineL", el)

SpecZeroDemand == InitDraw /\ [][ZeroDemandNext]_vars

Next ==
    \/ \E t \in Temporals : Register(t)
    \/ Start
    \/ Stop
    \/ Fire
    \/ \E e \in Engines, t \in {Null, "fuelTank"} : SetFuelTank(e, t)
    \/ \E e \in Engines, l \in {Rat(1, 2), One} : SetThrottle(e, l)

Spec == InitDraw /\ [][Next]_vars

(* ------------------------------------------------------------------ *)
(* Properties                                                             *)
(* ------------------------------------------------------------------ *)

(* C1: after any sequence of fillMass, fillVolume, drainMass and          *)
(* drainVolume calls with non-negative amounts, every tank's stored mass  *)
(* satisfies 0 <= level <= massCapacity.                                  *)
C1_LevelWithinCapacity ==
    \A t \in Tanks : Le(Zero, level[t]) /\ Le(level[t], massCapacity(t))

(* A fill that asked for more than the headroom and left the tank full. *)
C1_Witness ==
    /\ last.op = "fillVolume"
    /\ Gt(last.pre.level[last.obj], Zero)
    /\ Lt(last.ret, last.arg)
    /\ level[last.obj] = massCapacity(last.obj)

Connected(e) == fuelTank[e] # Null /\ oxidizerTank[e] # Null

(* The engines of the last firing whose tick got past the tank checks, in *)
(* registration order (the ports cannot change during a firing).          *)
Served == SelectSeq(temporals, LAMBDA t : t \in Engines /\ Connected(t))

Latest(S) == CHOOSE j \in S : \A i \in S : i <= j

(* The level of the tank of drain k left by the earlier drains of the firing. *)
LevelSeen(d, k) ==
    LET earlier == {j \in 1..(k - 1) : d[j].tank = d[k].tank}
    IN  IF earlier = {} THEN last.pre.level[d[k].tank]
        ELSE Sub(d[Latest(earlier)].before, d[Latest(earlier)].returned)

(* C2: engines sharing a tank are served by registration order, not       *)
(* proportionally: in a firing all four drains of an earlier-registered   *)
(* engine (pre-burner, then pump) precede those of a later one, each      *)
(* drain is made against the level the earlier drains left, and it gets   *)
(* its full request when the tank holds that much and what is left        *)
(* otherwise.                                                             *)
C2_RegistrationOrderPriority ==
    last.op = "firing" =>
        LET d == last.drains
        IN  /\ Len(d) = 4 * Len(Served)
            /\ \A k \in 1..Len(d) :
                 /\ d[k].engine = Served[((k - 1) \div 4) + 1]
                 /\ d[k].stage = (IF (k - 1) % 4 < 2 THEN "preburner" ELSE "pump")
                 /\ d[k].before = LevelSeen(d, k)
                 /\ d[k].returned = (IF Le(d[k].requested, d[k].before)
                                     THEN d[k].requested ELSE d[k].before)
            /\ \A t \in Tanks :
                 LET on == {k \in 1..Len(d) : d[k].tank = t}
                 IN  level[t] = (IF on = {} THEN last.pre.level[t]
                                 ELSE Sub(d[Latest(on)].before, d[Latest(on)].returned))

(* A firing in which the first engine got all it asked of the shared tank *)
(* and a later engine only the (non-zero) remainder.                      *)
C2_Witness ==
    /\ last.op = "firing"
    /\ \E j, k \in 1..Len(last.drains) :
         /\ j < k
         /\ last.drains[j].engine # last.drains[k].engine
         /\ last.drains[j].tank = last.drains[k].tank
         /\ Gt(last.drains[j].requested, Zero)
         /\ last.drains[j].returned = last.drains[j].requested
         /\ Gt(last.drains[k].returned, Zero)
         /\ Lt(last.drains[k].returned, last.drains[k].requested)

(* C3 as stated: in a firing every registered Temporal is ticked exactly  *)
(* once, with elapsed = 1/rate, in registration order.                    *)
C3_EachTemporalOnce ==
    last.op = "firing" =>
        /\ \A i \in 1..Len(temporals) :
             Cardinality({k \in 1..Len(last.ticked) :
                             last.ticked[k].temporal = temporals[i]}) = 1
        /\ \A k \in 1..Len(last.ticked) : last.ticked[k].elapsed = Div(One, Num(ClockRate))

(* C3 amended: a firing happens only while the Clock is Running and       *)
(* dispatches exactly one tick(1/rate) per registration, in registration  *)
(* order (a Temporal registered twice is ticked twice).                   *)
C3_OneTickPerRegistration ==
    last.op = "firing" =>
        /\ isRunning
        /\ Len(last.ticked) = Len(temporals)
        /\ \A i \in 1..Len(temporals) :
             last.ticked[i] = [temporal |-> temporals[i], elapsed |-> Div(One, Num(ClockRate))]

(* A firing over two different Temporals, and the same engine twice. *)
C3_Witness ==
    /\ last.op = "firing"
    /\ Len(temporals) = 2
    /\ temporals[1] = temporals[2]
    /\ temporals[1] \in Engines
    /\ Len(last.drains) = 8

(* C4: when a tick raises during a firing the error is logged, every      *)
(* Temporal registered after the failing one is still ticked in that      *)
(* firing, and the Clock stays Running with its timer active (so later    *)
(* firings tick all Temporals again).                                     *)
C4_FaultDoesNotStopFiring ==
    (last.op = "firing" /\ last.console # <<>>) =>
        /\ isRunning
        /\ id \in timers
        /\ Len(last.ticked) = Len(temporals)
        /\ \A i \in 1..Len(temporals) :
             /\ last.ticked[i].temporal = temporals[i]
             /\ (temporals[i] \in Engines /\ ~Connected(temporals[i])) =>
                    \E c \in 1..Len(last.console) : last.console[c].temporal = temporals[i]
        /\ Len(last.drains) = 4 * Len(Served)

(* A second or later firing in which the first Temporal failed and a      *)
(* later-registered engine was ticked and drained the tanks.              *)
C4_Witness ==
    /\ last.op = "firing"
    /\ nticks >= 2
    /\ Len(temporals) = 2
    /\ Len(last.console) = 1
    /\ last.console[1] = [temporal |-> temporals[1], error |-> "NoFuelTankConnectedError"]
    /\ Len(last.drains) = 4
    /\ last.drains[1].engine = temporals[2]
    /\ Gt(last.drains[1].returned, Zero)

(* C5: ticking an engine whose fuel tank is not connected raises          *)
(* NoFuelTankConnectedError and leaves both combustion levels and every   *)
(* tank level as they were.                                               *)
C5_NoFuelTankFault ==
    (last.op = "tick" /\ fuelTank[last.obj] = Null) =>
        /\ last.err = "NoFuelTankConnectedError"
        /\ last.drains = <<>>
        /\ preburnerCombustion = last.pre.pbc
        /\ chamberCombustion = last.pre.chc
        /\ level = last.pre.level

(* A burning engine with propellant in a connected oxidizer tank, ticked  *)
(* after its fuel tank was disconnected.                                  *)
C5_Witness ==
    /\ last.op = "tick"
    /\ last.err = "NoFuelTankConnectedError"
    /\ oxidizerTank[last.obj] # Null
    /\ Gt(level[oxidizerTank[last.obj]], Zero)
    /\ Gt(throttle[last.obj], Zero)
    /\ Gt(preburnerCombustion[last.obj], Zero)
    /\ Gt(chamberCombustion[last.obj], Zero)

(* C6: ticking an engine whose fuel tank is connected and whose oxidizer  *)
(* tank is not raises NoOxidizerTankConnectedError before any drain: the  *)
(* fuel tank level and both combustion levels are unchanged.              *)
C6_NoOxidizerTankFault ==
    (last.op = "tick" /\ fuelTank[last.obj] # Null /\ oxidizerTank[last.obj] = Null) =>
        /\ last.err = "NoOxidizerTankConnectedError"
        /\ last.err # "NoFuelTankConnectedError"
        /\ last.drains = <<>>
        /\ level = last.pre.level
        /\ preburnerCombustion = last.pre.pbc
        /\ chamberCombustion = last.pre.chc

(* A burning, throttled-up engine with fuel in its tank, ticked after its *)
(* oxidizer tank was disconnected.                                        *)
C6_Witness ==
    /\ last.op = "tick"
    /\ last.err = "NoOxidizerTankConnectedError"
    /\ Gt(level[fuelTank[last.obj]], Zero)
    /\ Gt(throttle[last.obj], Zero)
    /\ Gt(preburnerCombustion[last.obj], Zero)

(* C7: while no ignition flag has ever been set to true, both combustion  *)
(* levels and the thrust level are 0 after any number of ticks, at any    *)
(* throttle and tank level.                                               *)
C7_NeverIgnitedNoThrust ==
    \A e \in Engines :
        /\ preburnerCombustion[e] = Zero
        /\ chamberCombustion[e] = Zero
        /\ thrustLevel(e) = Zero

(* A second or later tick at full throttle from a full fuel tank, which   *)
(* drained propellant.                                                    *)
C7_Witness ==
    /\ last.op = "tick"
    /\ last.err = NoError
    /\ nticks >= 2
    /\ throttle[last.obj] = One
    /\ last.pre.level[fuelTank[last.obj]] = massCapacity(fuelTank[last.obj])
    /\ Gt(last.drains[1].returned, Zero)
    /\ Gt(last.drains[2].returned, Zero)

(* C8: a stage that is lit stays lit on every tick that supplies it with  *)
(* both propellants, whatever its ignition flag; and no setter changes a  *)
(* combustion level.                                                      *)
C8_SelfSustainingBurn ==
    /\ (last.op = "tick" /\ last.err = NoError) =>
         LET e == last.obj
             d == last.drains
         IN  /\ (/\ Gt(last.pre.pbc[e], Zero)
                 /\ Gt(d[1].returned, Zero)
                 /\ Gt(d[2].returned, Zero)) => Gt(preburnerCombustion[e], Zero)
             /\ (/\ Gt(last.pre.chc[e], Zero)
                 /\ Gt(d[3].returned, Zero)
                 /\ Gt(d[4].returned, Zero)) => Gt(chamberCombustion[e], Zero)
    /\ last.op = "set" =>
         /\ preburnerCombustion = last.pre.pbc
         /\ chamberCombustion = last.pre.chc

(* Both stages burning after a tick made with both ignition flags off. *)
C8_Witness ==
    /\ last.op = "tick"
    /\ ~preburnerIgnition[last.obj]
    /\ ~chamberIgnition[last.obj]
    /\ Gt(last.pre.pbc[last.obj], Zero)
    /\ Gt(last.pre.chc[last.obj], Zero)
    /\ Gt(preburnerCombustion[last.obj], Zero)
    /\ Gt(chamberCombustion[last.obj], Zero)

(* C9: a tick sets a stage whose ignition flag is off to 0 when the stage *)
(* got none of one propellant, and also when the stage was at 0 already   *)
(* (however much propellant it got); nothing but a tick changes a         *)
(* combustion level. So an extinguished stage stays at 0, also after a    *)
(* refill, until its ignition flag is set again.                          *)
C9_Extinction ==
    /\ (last.op = "tick" /\ last.err = NoError) =>
         LET e == last.obj
             d == last.drains
         IN  /\ (/\ ~preburnerIgnition[e]
                 /\ \/ d[1].returned = Zero
                    \/ d[2].returned = Zero
                    \/ last.pre.pbc[e] = Zero) => preburnerCombustion[e] = Zero
             /\ (/\ ~chamberIgnition[e]
                 /\ \/ d[3].returned = Zero
                    \/ d[4].returned = Zero
                    \/ last.pre.chc[e] = Zero) => chamberCombustion[e] = Zero
    /\ (last.op # "firing" /\ (last.op # "tick" \/ last.err # NoError)) =>
         /\ preburnerCombustion = last.pre.pbc
         /\ chamberCombustion = last.pre.chc

(* A tick that extinguished both lit stages of an engine whose ignition   *)
(* flags are off.                                                         *)
C9_Witness ==
    /\ last.op = "tick"
    /\ last.err = NoError
    /\ ~preburnerIgnition[last.obj]
    /\ ~chamberIgnition[last.obj]
    /\ Gt(last.pre.pbc[last.obj], Zero)
    /\ Gt(last.pre.chc[last.obj], Zero)
    /\ preburnerCombustion[last.obj] = Zero
    /\ chamberCombustion[last.obj] = Zero

FullDemandHeld ==
    /\ last.op = "tick"
    /\ last.err = NoError
    /\ last.arg = One
    /\ preburnerIgnition[last.obj]
    /\ chamberIgnition[last.obj]
    /\ throttle[last.obj] = One
    /\ Le(Mul(fuelFlowNominal(last.obj), last.arg), last.pre.level[fuelTank[last.obj]])
    /\ Le(Mul(oxidizerFlowNominal(last.obj), last.arg),
          last.pre.level[oxidizerTank[last.obj]])

(* C10: a tick with elapsed = 1 of an engine with both ignition flags on  *)
(* and throttle 1, whose tanks held at least the nominal flow for that    *)
(* second, leaves preburnerCombustion = chamberCombustion = 1, hence      *)
(* thrustLevel = 1 and thrust = thrustNominal.                            *)
C10_FullThrustWhenUnconstrained ==
    FullDemandHeld =>
        /\ preburnerCombustion[last.obj] = One
        /\ chamberCombustion[last.obj] = One
        /\ thrustLevel(last.obj) = One
        /\ thrust(last.obj) = thrustNominal(last.obj)

(* A second such tick, made from full thrust. *)
C10_Witness ==
    /\ FullDemandHeld
    /\ nticks >= 2
    /\ last.pre.pbc[last.obj] = One
    /\ last.pre.chc[last.obj] = One

(* A tick of an ignited engine at full throttle whose fuel tank held      *)
(* exactly half the fuel of a full tick, fuelFlowNominal * elapsed / 2,   *)
(* and whose oxidizer tank held at least a full tick's oxidizer.          *)
StarvedTick ==
    /\ last.op = "tick"
    /\ last.err = NoError
    /\ preburnerIgnition[last.obj]
    /\ chamberIgnition[last.obj]
    /\ throttle[last.obj] = One
    /\ last.pre.level[fuelTank[last.obj]] =
           Div(Mul(fuelFlowNominal(last.obj), last.arg), Num(2))
    /\ Le(Mul(oxidizerFlowNominal(last.obj), last.arg),
          last.pre.level[oxidizerTank[last.obj]])

(* The fuel supply ratio a stage computed in the last tick: the fuel it   *)
(* drained (drain k of the tick) over its nominal share of the flow.      *)
FuelSupplyRatio(k, tapOff) ==
    Div(last.drains[k].returned, Mul(fuelFlowNominal(last.obj), Mul(tapOff, last.arg)))

(* C11 as stated: the starved tick yields a fuel supply ratio of 0.5 (in  *)
(* one stage at least) and no combustion level above 0.5.                 *)
C11_HalfSupplyHalfCombustion ==
    StarvedTick =>
        /\ \/ FuelSupplyRatio(1, PREBURNER_TAP_OFF) = Rat(1, 2)
           \/ FuelSupplyRatio(3, CHAMBER_TAP_OFF) = Rat(1, 2)
        /\ Le(preburnerCombustion[last.obj], Rat(1, 2))
        /\ Le(chamberCombustion[last.obj], Rat(1, 2))

(* C11 amended: in the starved tick the pre-burner is served first and in *)
(* full (fuel supply ratio 1, preburnerCombustion = 1); the pump gets the *)
(* rest of the fuel, a supply ratio of (1/2 - 1/20) / (19/20) = 9/19, so  *)
(* chamberCombustion = 9/19 <= 0.5 and thrustLevel = 0.5.                 *)
C11_StarvedTickServesPreburnerFirst ==
    StarvedTick =>
        /\ FuelSupplyRatio(1, PREBURNER_TAP_OFF) = One
        /\ preburnerCombustion[last.obj] = One
        /\ FuelSupplyRatio(3, CHAMBER_TAP_OFF) = Rat(9, 19)
        /\ chamberCombustion[last.obj] = Rat(9, 19)
        /\ Le(chamberCombustion[last.obj], Rat(1, 2))
        /\ thrustLevel(last.obj) = Rat(1, 2)
        /\ level[fuelTank[last.obj]] = Zero

(* A starved tick of one second: the tank held 10 kg of the 20 kg. *)
C11_Witness ==
    /\ StarvedTick
    /\ last.arg = One
    /\ last.pre.level["fuelTank"] = Num(FuelFlowKgS \div 2)

(* The smaller of two numbers, by comparison. *)
Smaller(x, y) == IF Le(x, y) THEN x ELSE y

(* C12: fillMass(m) returns min(m, massCapacity - level_before) and the   *)
(* stored mass grows by exactly the returned amount (no other tank        *)
(* changes).                                                              *)
C12_FillMassReturnsClampedAmount ==
    last.op = "fillMass" =>
        LET t == last.obj
        IN  /\ last.ret = Smaller(last.arg, Sub(massCapacity(t), last.pre.level[t]))
            /\ level[t] = Add(last.pre.level[t], last.ret)
            /\ \A u \in Tanks \ {t} : level[u] = last.pre.level[u]

(* A fillMass of a partly filled tank that asked for more than the        *)
(* headroom and got the headroom.                                         *)
C12_Witness ==
    /\ last.op = "fillMass"
    /\ Gt(last.pre.level[last.obj], Zero)
    /\ Gt(last.ret, Zero)
    /\ Lt(last.ret, last.arg)
    /\ level[last.obj] = massCapacity(last.obj)

(* C13: drainMass(m) returns min(m, level_before) and the stored mass     *)
(* shrinks by exactly the returned amount (no other tank changes).        *)
C13_DrainMassReturnsClampedAmount ==
    last.op = "drainMass" =>
        LET t == last.obj
        IN  /\ last.ret = Smaller(last.arg, last.pre.level[t])
            /\ level[t] = Sub(last.pre.level[t], last.ret)
            /\ \A u \in Tanks \ {t} : level[u] = last.pre.level[u]

(* A drainMass that asked for more than the tank held and emptied it. *)
C13_Witness ==
    /\ last.op = "drainMass"
    /\ Gt(last.ret, Zero)
    /\ Lt(last.ret, last.arg)
    /\ last.ret = last.pre.level[last.obj]
    /\ level[last.obj] = Zero

TankOps == {"fillVolume", "fillMass", "drainVolume", "drainMass"}

(* What a tank call says it transferred, in kg. *)
ReturnedMass ==
    IF last.op \in {"fillVolume", "drainVolume"}
    THEN Mul(last.ret, density(last.obj)) ELSE last.ret

(* What the call of the last step moved into (fill) or out of (drain) the *)
(* tank, in kg.                                                           *)
TransferredMass ==
    IF last.op \in {"fillVolume", "fillMass"}
    THEN Sub(level[last.obj], last.pre.level[last.obj])
    ELSE Sub(last.pre.level[last.obj], level[last.obj])

(* C14 as stated: every fill or drain call returns the amount actually    *)
(* transferred, and that amount is never negative and never more than     *)
(* the amount requested.                                                  *)
C14_ReturnsActualTransfer ==
    last.op \in TankOps =>
        /\ ReturnedMass = TransferredMass
        /\ Le(Zero, last.ret)
        /\ Le(last.ret, last.arg)

(* C14 for the calls with a non-negative amount on a tank whose level is  *)
(* within [0, massCapacity].                                              *)
C14_ReturnsActualTransferWhenValid ==
    (/\ last.op \in TankOps
     /\ Le(Zero, last.arg)
     /\ Le(Zero, last.pre.level[last.obj])
     /\ Le(last.pre.level[last.obj], massCapacity(last.obj))) =>
        /\ ReturnedMass = TransferredMass
        /\ Le(Zero, last.ret)
        /\ Le(last.ret, last.arg)

(* A call with a negative amount on a tank within its limits: it returns  *)
(* the negative request as the amount transferred.                        *)
C14_Witness ==
    /\ last.op \in TankOps
    /\ Lt(last.arg, Zero)
    /\ Le(Zero, last.pre.level[last.obj])
    /\ Le(last.pre.level[last.obj], massCapacity(last.obj))
    /\ Lt(last.ret, Zero)

WithinLimits(lv, t) == Le(Zero, lv) /\ Le(lv, massCapacity(t))

(* C15 as stated: no fill or drain call, whatever amount it is given, and *)
(* no firing takes the stored mass of a tank that is within               *)
(* [0, massCapacity] outside of it.                                       *)
C15_NoOperationLeavesLimits ==
    (last.op \in TankOps \cup {"firing", "tick"}) =>
        \A t \in Tanks : WithinLimits(last.pre.level[t], t) => WithinLimits(level[t], t)

(* A fill with a negative amount that left the tank below 0, and a drain  *)
(* with a negative amount that left it above its capacity.                *)
C15_Witness ==
    /\ last.op \in {"fillMass", "drainMass"}
    /\ Lt(last.arg, Zero)
    /\ WithinLimits(last.pre.level[last.obj], last.obj)
    /\ ~WithinLimits(level[last.obj], last.obj)

(* The part of C15 about engines sharing a tank: a firing leaves every    *)
(* tank within its limits.                                                *)
C15_FiringKeepsLimits ==
    \A t \in Tanks : WithinLimits(level[t], t)

(* C16: start() on a Clock that is Running raises IllegalStateError,      *)
(* leaves the Clock Running on the same, single timer, and the Clock      *)
(* never has more than one timer.                                         *)
C16_StartWhileRunningFails ==
    /\ Cardinality(timers) <= 1
    /\ (last.op = "start" /\ last.pre.isRunning) =>
         /\ last.err = "IllegalStateError"
         /\ isRunning
         /\ timers = last.pre.timers
         /\ timers = {id}

(* A refused start() of a Clock that has Temporals registered. *)
C16_Witness ==
    /\ last.op = "start"
    /\ last.pre.isRunning
    /\ last.err = "IllegalStateError"
    /\ Len(temporals) = MaxTemporals

(* C17 as stated: stop() on a Clock that is Stopped raises                *)
(* IllegalStateError and leaves the Clock Stopped.                        *)
C17_StopWhileStoppedFails ==
    (last.op = "stop" /\ ~last.pre.isRunning) =>
        /\ last.err = "IllegalStateError"
        /\ ~isRunning

(* A stop() of a Clock that was never started: it returns normally. *)
C17_Witness ==
    /\ last.op = "stop"
    /\ ~last.pre.isRunning
    /\ last.err = NoError
    /\ ~isRunning
    /\ timers = {}

(* C18 as stated: start() takes a Stopped Clock to Running, and stop()    *)
(* takes a Running Clock back to Stopped with no timer left to fire.      *)
C18_TwoStateMachine ==
    /\ (last.op = "start" /\ ~last.pre.isRunning) => (last.err = NoError /\ isRunning)
    /\ (last.op = "stop" /\ last.pre.isRunning) =>
         /\ last.err = NoError
         /\ ~isRunning
         /\ timers = {}

(* A stop() of a Running Clock: it raises IllegalStateError and the timer *)
(* stays.                                                                 *)
C18_Witness ==
    /\ last.op = "stop"
    /\ last.pre.isRunning
    /\ last.err = "IllegalStateError"
    /\ isRunning
    /\ timers # {}

(* The sum of the amounts returned by the drains k..Len(d) of d on tank t. *)
RECURSIVE SumReturned(_, _, _)
SumReturned(d, t, k) ==
    IF k > Len(d) THEN Zero
    ELSE Add(IF d[k].tank = t THEN d[k].returned ELSE Zero, SumReturned(d, t, k + 1))

(* C19: with the engines of draw() on one Clock, sharing the tanks, and   *)
(* no fills, the mass removed from a tank grows in every firing by        *)
(* exactly the sum of the amounts the drain calls of that firing          *)
(* returned, each drain being computed against the level the earlier      *)
(* drains left, and nothing else changes a level; so after any number of  *)
(* firings the mass removed is the sum of all amounts returned.           *)
C19_MassConservation ==
    /\ last.op = "firing" =>
         /\ \A t \in Tanks :
              Sub(massCapacity(t), level[t]) =
                  Add(Sub(massCapacity(t), last.pre.level[t]),
                      SumReturned(last.drains, t, 1))
         /\ \A k \in 1..Len(last.drains) :
              /\ last.drains[k].before = LevelSeen(last.drains, k)
              /\ last.drains[k].returned =
                     Smaller(last.drains[k].requested, last.drains[k].before)
    /\ last.op # "firing" => level = last.pre.level

(* A second or later firing in which both engines drained fuel from the   *)
(* shared tank and some drain got less than it asked for.                 *)
C19_Witness ==
    /\ last.op = "firing"
    /\ nticks >= 2
    /\ \A e \in Engines :
         \E k \in 1..Len(last.drains) :
            /\ last.drains[k].engine = e
            /\ last.drains[k].tank = "fuelTank"
            /\ Gt(last.drains[k].returned, Zero)
    /\ \E k \in 1..Len(last.drains) :
         Lt(last.drains[k].returned, last.drains[k].requested)

Registrations(e) == Cardinality({i \in 1..Len(temporals) : temporals[i] = e})

(* The errors the last firing logged for temporal e. *)
Faults(e) == {k \in 1..Len(last.console) : last.console[k].temporal = e}

DrainsBy(e) == {k \in 1..Len(last.drains) : last.drains[k].engine = e}

(* C20: in every firing an engine with an unset tank port raises the      *)
(* no-tank-connected fault of that port, once per registration, and       *)
(* drains nothing; the Clock stays Running on its timer; and an engine    *)
(* whose ports are both set is ticked normally (no fault, four drains per *)
(* registration), whatever happened in earlier firings.                   *)
C20_FaultRepeatsUntilTankAttached ==
    last.op = "firing" =>
        /\ isRunning
        /\ timers # {}
        /\ timers = last.pre.timers
        /\ \A e \in Engines :
             /\ fuelTank[e] = Null =>
                  /\ Cardinality(Faults(e)) = Registrations(e)
                  /\ \A k \in Faults(e) :
                       last.console[k].error = "NoFuelTankConnectedError"
                  /\ DrainsBy(e) = {}
                  /\ preburnerCombustion[e] = last.pre.pbc[e]
                  /\ chamberCombustion[e] = last.pre.chc[e]
             /\ (fuelTank[e] # Null /\ oxidizerTank[e] = Null) =>
                  /\ Cardinality(Faults(e)) = Registrations(e)
                  /\ \A k \in Faults(e) :
                       last.console[k].error = "NoOxidizerTankConnectedError"
                  /\ DrainsBy(e) = {}
             /\ Connected(e) =>
                  /\ Faults(e) = {}
                  /\ Cardinality(DrainsBy(e)) = 4 * Registrations(e)

(* A firing that ticked engineL normally after an earlier firing in which *)
(* it raised the fault: engineL is registered before engineR, engineR has *)
(* burnt already, the fuel tank has never run dry, and yet engineL had    *)
(* not burnt before this firing.                                          *)
C20_Witness ==
    /\ last.op = "firing"
    /\ nticks >= 2
    /\ temporals = <<"engineL", "engineR">>
    /\ last.pre.pbc["engineL"] = Zero
    /\ Gt(last.pre.pbc["engineR"], Zero)
    /\ Gt(last.pre.level["fuelTank"], Num(FuelFlowKgS))
    /\ Connected("engineL")
    /\ last.console = <<>>
    /\ Gt(preburnerCombustion["engineL"], Zero)
    /\ Gt(chamberCombustion["engineL"], Zero)
    /\ isRunning

(* thrustLevel as the claim gives it, from the literal split constants. *)
NominalShare(e) ==
    Add(Mul(Rat(5, 100), preburnerCombustion[e]), Mul(Rat(95, 100), chamberCombustion[e]))

(* C21: thrust, fuelFlow, oxidizerFlow, propellantFlow and                *)
(* effectiveExhaustVelocity each equal their nominal value times          *)
(* thrustLevel, and thrustLevel = 0.05 * preburnerCombustion + 0.95 *     *)
(* chamberCombustion.                                                     *)
C21_FlowsScaleWithThrustLevel ==
    \A e \in Engines :
        /\ thrustLevel(e) = NominalShare(e)
        /\ thrust(e) = Mul(thrustNominal(e), NominalShare(e))
        /\ fuelFlow(e) = Mul(fuelFlowNominal(e), NominalShare(e))
        /\ oxidizerFlow(e) = Mul(oxidizerFlowNominal(e), NominalShare(e))
        /\ propellantFlow(e) = Mul(propellantFlowNominal(e), NominalShare(e))
        /\ effectiveExhaustVelocity(e) =
               Mul(effectiveExhaustVelocityNominal(e), NominalShare(e))

(* An engine burning at different levels in its two stages after a tick,  *)
(* at a thrust level strictly between 0 and 1.                            *)
C21_Witness ==
    /\ last.op = "tick"
    /\ Gt(preburnerCombustion[last.obj], Zero)
    /\ Gt(chamberCombustion[last.obj], Zero)
    /\ preburnerCombustion[last.obj] # chamberCombustion[last.obj]
    /\ Gt(thrustLevel(last.obj), Zero)
    /\ Lt(thrustLevel(last.obj), One)

WithinUnit(x) == Le(Zero, x) /\ Le(x, One)

(* C22 as stated: in every state reached by setter calls and ticks with   *)
(* elapsed > 0, preburnerCombustion, chamberCombustion and thrustLevel    *)
(* lie in [0,1].                                                          *)
C22_CombustionWithinUnit ==
    \A e \in Engines :
        /\ WithinUnit(preburnerCombustion[e])
        /\ WithinUnit(chamberCombustion[e])
        /\ WithinUnit(thrustLevel(e))

(* A tick of an engine whose throttle had been set to NaN: its combustion *)
(* levels are NaN.                                                        *)
C22_Witness ==
    /\ last.op = "tick"
    /\ last.err = NoError
    /\ IsNaN(throttle[last.obj])
    /\ WithinUnit(last.pre.pbc[last.obj])
    /\ IsNaN(preburnerCombustion[last.obj])
    /\ IsNaN(chamberCombustion[last.obj])

(* C23: a fuel port is unset or holds the tank of a Fuel, an oxidizer     *)
(* port is unset or holds the tank of an Oxidizer; the setter throws for  *)
(* a tank of the other variant (RangeError) and for a value that is not a *)
(* Tank (TypeError), and a setter that throws changes no port.            *)
C23_PortsHoldTheirVariant ==
    /\ [](\A e \in Engines :
             /\ fuelTank[e] = Null \/ (fuelTank[e] \in Tanks /\ IsFuel(fuelTank[e]))
             /\ oxidizerTank[e] = Null
                    \/ (oxidizerTank[e] \in Tanks /\ IsOxidizer(oxidizerTank[e])))
    /\ [](last.op \in {"set fuelTank", "set oxidizerTank"} =>
             /\ last.arg # Null
             /\ last.arg \in Tanks => last.err = "RangeError"
             /\ last.arg \notin Tanks => last.err = "TypeError"
             /\ last.arg \in Tanks =>
                    (IsFuel(last.arg) <=> last.op = "set oxidizerTank"))
    /\ [][last'.op \in {"set fuelTank", "set oxidizerTank"} =>
              (fuelTank' = fuelTank /\ oxidizerTank' = oxidizerTank)]_vars

(* A refused assignment of the oxidizer tank to a fuel port that holds    *)
(* the fuel tank.                                                         *)
C23_Witness ==
    /\ last.op = "set fuelTank"
    /\ last.arg = "oxidizerTank"
    /\ last.err = "RangeError"
    /\ fuelTank[last.obj] = "fuelTank"

(* C24 as stated: the throttle lies in [0,1] in every state, and a        *)
(* refused assignment is of a value below 0 or above 1.                   *)
C24_ThrottleWithinUnit ==
    /\ \A e \in Engines : WithinUnit(throttle[e])
    /\ last.op = "set throttle" =>
         /\ last.err = "RangeError"
         /\ Lt(last.arg, Zero) \/ Gt(last.arg, One)

(* The throttle after NaN was assigned to it. *)
C24_Witness ==
    /\ last.op = "set"
    /\ IsNaN(throttle[last.obj])

(* C29: reading thrust, thrustLevel, fuelFlow, oxidizerFlow,              *)
(* propellantFlow, effectiveExhaustVelocity or specificImpulse(g) changes *)
(* no engine state and no tank level.                                     *)
C29_AccessorsAreSideEffectFree ==
    [][last'.op \in Accessors =>
          UNCHANGED <<level, fuelTank, oxidizerTank, throttle, preburnerIgnition,
                      chamberIgnition, preburnerCombustion, chamberCombustion>>]_vars

(* A read of specificImpulse on a burning engine. *)
C29_Witness ==
    /\ last.op = "specificImpulse"
    /\ IsFinite(last.ret)
    /\ Gt(last.ret, Zero)
    /\ Gt(thrustLevel(last.obj), Zero)
    /\ throttle[last.obj] # thrustLevel(last.obj)

(* C25: a tick of an engine with both tanks connected raises no fault,    *)
(* however little the tanks hold: each of its four drains gets the        *)
(* smaller of its request and what the tank held, and the shortfall shows *)
(* only in the combustion levels (chamberCombustion <= preburnerCombustion *)
(* <= throttle).                                                          *)
C25_ExhaustionRaisesNoFault ==
    (last.op = "tick" /\ Connected(last.obj)) =>
        /\ last.err = NoError
        /\ Len(last.drains) = 4
        /\ \A k \in 1..Len(last.drains) :
             /\ last.drains[k].returned =
                    Smaller(last.drains[k].requested, last.drains[k].before)
             /\ Le(Zero, last.drains[k].returned)
        /\ Le(Zero, chamberCombustion[last.obj])
        /\ Le(chamberCombustion[last.obj], preburnerCombustion[last.obj])
        /\ Le(preburnerCombustion[last.obj], throttle[last.obj])

(* A tick of a burning engine that asked for more fuel than the tank held *)
(* and left the tank empty.                                               *)
C25_Witness ==
    /\ last.op = "tick"
    /\ Connected(last.obj)
    /\ Gt(last.pre.pbc[last.obj], Zero)
    /\ \E k \in 1..Len(last.drains) :
         /\ last.drains[k].tank = "fuelTank"
         /\ Gt(last.drains[k].returned, Zero)
         /\ Lt(last.drains[k].returned, last.drains[k].requested)
    /\ level["fuelTank"] = Zero
    /\ Lt(chamberCombustion[last.obj], last.pre.chc[last.obj])

(* C26: no step removes or reorders a registered Temporal: the sequence   *)
(* before a step is a prefix of the sequence after it, register appends   *)
(* its argument, and start, stop and a firing leave the sequence as it    *)
(* is.                                                                    *)
C26_RegistrationIsAppendOnly ==
    [][/\ Len(temporals') >= Len(temporals)
       /\ SubSeq(temporals', 1, Len(temporals)) = temporals
       /\ last'.op = "register" => temporals' = Append(temporals, last'.obj)
       /\ last'.op \in {"start", "stop", "firing"} => temporals' = temporals]_vars

(* Two different Temporals, still registered in their order after a       *)
(* firing.                                                                *)
C26_Witness ==
    /\ last.op = "firing"
    /\ Len(temporals) = 2
    /\ temporals[1] # temporals[2]
    /\ Len(last.ticked) = 2

(* C27: a drainVolume(v') that directly follows a fillVolume on the same  *)
(* tank, with v' not larger than the volume that fillVolume returned,     *)
(* returns v' and lowers the stored mass by exactly v' * density.         *)
C27_FillThenDrainVolume ==
    [][(/\ last.op = "fillVolume"
        /\ last'.op = "drainVolume"
        /\ last'.obj = last.obj
        /\ Le(last'.arg, last.ret)) =>
           /\ last'.ret = last'.arg
           /\ level'[last.obj] = Sub(level[last.obj], Mul(last'.arg, density(last.obj)))]_vars

(* A drainVolume of 50000 mL from a tank holding exactly the 50000 mL     *)
(* that a fillVolume put into it when it was empty.                       *)
C27_Witness ==
    /\ last.op = "drainVolume"
    /\ last.arg = Num(50000)
    /\ last.pre.level[last.obj] = Mul(Num(50000), density(last.obj))
    /\ last.ret = last.arg
    /\ level[last.obj] = Zero

(* C28 as stated: on the empty RP-1 tank of capacity 10000/0.820 mL,      *)
(* fillMass(50000) returns 50000 and leaves 50000 kg stored; fillMass of  *)
(* 20000 more on the tank at capacity returns 0.                          *)
C28_FillMassReturnsRequest ==
    /\ (/\ last.op = "fillMass"
        /\ last.obj = Rp1Tank
        /\ last.arg = Num(50000)
        /\ last.pre.level[Rp1Tank] = Zero) =>
           (last.ret = Num(50000) /\ level[Rp1Tank] = Num(50000))
    /\ (/\ last.op = "fillMass"
        /\ last.obj = Rp1Tank
        /\ last.arg = Num(20000)
        /\ last.pre.level[Rp1Tank] = massCapacity(Rp1Tank)) => last.ret = Zero

(* C28 amended: the tank's massCapacity is 10 kg, so fillMass(50000) on   *)
(* the empty tank returns 10 and leaves 10 kg stored; fillMass of 20000   *)
(* more on the tank at capacity returns 0 and leaves it at capacity.      *)
C28_FillMassReturnsCapacity ==
    /\ massCapacity(Rp1Tank) = Num(10)
    /\ (/\ last.op = "fillMass"
        /\ last.obj = Rp1Tank
        /\ last.arg = Num(50000)
        /\ last.pre.level[Rp1Tank] = Zero) =>
           (last.ret = Num(10) /\ level[Rp1Tank] = Num(10))
    /\ (/\ last.op = "fillMass"
        /\ last.obj = Rp1Tank
        /\ last.arg = Num(20000)
        /\ last.pre.level[Rp1Tank] = massCapacity(Rp1Tank)) =>
           (last.ret = Zero /\ level[Rp1Tank] = massCapacity(Rp1Tank))

(* The second fill of the scenario, on the tank at capacity. *)
C28_Witness ==
    /\ last.op = "fillMass"
    /\ last.obj = Rp1Tank
    /\ last.arg = Num(20000)
    /\ last.pre.level[Rp1Tank] = massCapacity(Rp1Tank)
    /\ last.ret = Zero

(* A tick that got past the tank checks with the pre-burner ignited or    *)
(* already lit.                                                           *)
PreburnerBurns ==
    /\ last.op = "tick"
    /\ last.err = NoError
    /\ preburnerIgnition[last.obj] \/ Gt(last.pre.pbc[last.obj], Zero)

(* The pre-burner's requests are the nominal flows * 0.05 * throttle *    *)
(* elapsed.                                                               *)
PreburnerRequests ==
    /\ last.drains[1].requested =
           Mul(Mul(Mul(fuelFlowNominal(last.obj), Rat(5, 100)), throttle[last.obj]), last.arg)
    /\ last.drains[2].requested =
           Mul(Mul(Mul(oxidizerFlowNominal(last.obj), Rat(5, 100)), throttle[last.obj]),
               last.arg)

PreburnerServedInFull ==
    /\ last.drains[1].returned = last.drains[1].requested
    /\ last.drains[2].returned = last.drains[2].requested

(* C30 as stated: the new preburnerCombustion is the smaller of drained / *)
(* requested for the two propellants, the requests being throttle-scaled; *)
(* so it is 1 when both requests are served in full, at any throttle in   *)
(* (0,1].                                                                 *)
C30_PreburnerSupplyOverRequest ==
    (PreburnerBurns /\ Gt(throttle[last.obj], Zero)) =>
        /\ PreburnerRequests
        /\ preburnerCombustion[last.obj] =
               Smaller(Div(last.drains[1].returned, last.drains[1].requested),
                       Div(last.drains[2].returned, last.drains[2].requested))
        /\ PreburnerServedInFull => preburnerCombustion[last.obj] = One

(* C30 amended: the requests are throttle-scaled, but the supply ratios   *)
(* are taken over the unthrottled amounts, nominal flow * 0.05 * elapsed; *)
(* so the new preburnerCombustion is the throttle when both requests are  *)
(* served in full.                                                        *)
C30_PreburnerSupplyOverNominal ==
    PreburnerBurns =>
        /\ PreburnerRequests
        /\ preburnerCombustion[last.obj] =
               Smaller(Div(last.drains[1].returned,
                           Mul(Mul(fuelFlowNominal(last.obj), Rat(5, 100)), last.arg)),
                       Div(last.drains[2].returned,
                           Mul(Mul(oxidizerFlowNominal(last.obj), Rat(5, 100)), last.arg)))
        /\ PreburnerServedInFull => preburnerCombustion[last.obj] = throttle[last.obj]

(* A tick at half throttle with ample propellant: preburnerCombustion is  *)
(* one half.                                                              *)
C30_Witness ==
    /\ PreburnerBurns
    /\ preburnerIgnition[last.obj]
    /\ throttle[last.obj] = Rat(1, 2)
    /\ PreburnerServedInFull
    /\ Gt(level["fuelTank"], Zero)
    /\ Gt(level["oxidizerTank"], Zero)
    /\ preburnerCombustion[last.obj] = Rat(1, 2)

(* ------------------------------------------------------------------ *)
(* Zero demand                                                            *)
(* ------------------------------------------------------------------ *)

SuccessfulTick == last.op = "tick" /\ last.err = NoError

(* C31: when a stage requested nothing of either propellant in the last   *)
(* tick (throttle * elapsed = 0 for the pre-burner, preburnerCombustion * *)
(* elapsed = 0 for the chamber) and the stage is ignited, its combustion  *)
(* level is 1.                                                            *)
C31_ZeroDemandFullSupply ==
    SuccessfulTick =>
        /\ ( /\ last.drains[1].requested = Zero
             /\ last.drains[2].requested = Zero
             /\ preburnerIgnition[last.obj] ) => preburnerCombustion[last.obj] = One
        /\ ( /\ last.drains[3].requested = Zero
             /\ last.drains[4].requested = Zero
             /\ chamberIgnition[last.obj] ) => chamberCombustion[last.obj] = One

(* A tick of zero elapsed seconds of the ignited engine at full throttle: *)
(* nothing is requested and both combustion levels are 0/0.               *)
C31_Witness ==
    /\ SuccessfulTick
    /\ last.arg = Zero
    /\ throttle[last.obj] = One
    /\ preburnerIgnition[last.obj]
    /\ chamberIgnition[last.obj]
    /\ last.drains[1].requested = Zero
    /\ IsNaN(preburnerCombustion[last.obj])
    /\ IsNaN(chamberCombustion[last.obj])

(* ------------------------------------------------------------------ *)
(* The chamber stage                                                      *)
(* ------------------------------------------------------------------ *)

(* A tick that got past the tank checks with the chamber ignited or       *)
(* already lit.                                                           *)
ChamberBurns ==
    /\ SuccessfulTick
    /\ chamberIgnition[last.obj] \/ Gt(last.pre.chc[last.obj], Zero)

(* The pump's requests are the nominal flows * 0.95 * the                 *)
(* preburnerCombustion the tick's pre-burner stage has just set *         *)
(* elapsed; they come after the pre-burner's two.                         *)
PumpRequests ==
    /\ Len(last.drains) = 4
    /\ last.drains[1].stage = "preburner" /\ last.drains[2].stage = "preburner"
    /\ last.drains[3].stage = "pump" /\ last.drains[4].stage = "pump"
    /\ last.drains[3].requested =
           Mul(Mul(Mul(fuelFlowNominal(last.obj), Rat(95, 100)),
                   preburnerCombustion[last.obj]), last.arg)
    /\ last.drains[4].requested =
           Mul(Mul(Mul(oxidizerFlowNominal(last.obj), Rat(95, 100)),
                   preburnerCombustion[last.obj]), last.arg)

(* C32 as stated: the pre-burner stage runs first, the chamber stage then *)
(* requests nominal flow * 0.95 * the new preburnerCombustion * elapsed,  *)
(* and the new chamberCombustion of an ignited or lit chamber is the      *)
(* smaller of drained / required over those requests.                     *)
C32_ChamberSupplyOverRequest ==
    (ChamberBurns /\ Gt(preburnerCombustion[last.obj], Zero)) =>
        /\ PumpRequests
        /\ chamberCombustion[last.obj] =
               Smaller(Div(last.drains[3].returned, last.drains[3].requested),
                       Div(last.drains[4].returned, last.drains[4].requested))

(* C32 amended: the requests are as stated, but the supply ratios are     *)
(* taken over the amounts at full pre-burner output, nominal flow * 0.95  *)
(* * elapsed; with ample propellant the new chamberCombustion is the new  *)
(* preburnerCombustion.                                                   *)
C32_ChamberSupplyOverNominal ==
    /\ SuccessfulTick => PumpRequests
    /\ ChamberBurns =>
        /\ chamberCombustion[last.obj] =
               Smaller(Div(last.drains[3].returned,
                           Mul(Mul(fuelFlowNominal(last.obj), Rat(95, 100)), last.arg)),
                       Div(last.drains[4].returned,
                           Mul(Mul(oxidizerFlowNominal(last.obj), Rat(95, 100)), last.arg)))
        /\ ( /\ last.drains[3].returned = last.drains[3].requested
             /\ last.drains[4].returned = last.drains[4].requested )
               => chamberCombustion[last.obj] = preburnerCombustion[last.obj]

(* The first tick at half throttle of an ignited engine with ample        *)
(* propellant: the pre-burner goes from 0 to 1/2, the pump requests half  *)
(* of its nominal share and the chamber burns at 1/2.                     *)
C32_Witness ==
    /\ ChamberBurns
    /\ chamberIgnition[last.obj]
    /\ last.pre.pbc[last.obj] = Zero
    /\ throttle[last.obj] = Rat(1, 2)
    /\ preburnerCombustion[last.obj] = Rat(1, 2)
    /\ last.drains[3].requested = Mul(Num(FuelFlowKgS), Rat(95, 200))
    /\ last.drains[3].returned = last.drains[3].requested
    /\ last.drains[4].returned = last.drains[4].requested
    /\ chamberCombustion[last.obj] = Rat(1, 2)

(* ------------------------------------------------------------------ *)
(* Combustion against supply                                              *)
(* ------------------------------------------------------------------ *)

(* The supply ratio of drain k of the last tick: the mass drained over    *)
(* the mass requested, and 1 when nothing was requested.                  *)
SupplyRatio(k) ==
    IF last.drains[k].requested = Zero THEN One
    ELSE Div(last.drains[k].returned, last.drains[k].requested)

PreburnerUnlit ==
    /\ ~preburnerIgnition[last.obj]
    /\ last.pre.pbc[last.obj] = Zero

(* Drain k of the last tick returned its request clamped to what the tank *)
(* held.                                                                  *)
DrainClamped(k) ==
    last.drains[k].returned = Smaller(last.drains[k].requested, last.drains[k].before)

(* C35: every successful tick drains nominal flow * 0.05 * throttle *     *)
(* elapsed of fuel and of oxidizer for the pre-burner, clamped to what    *)
(* the tanks hold, whether or not the pre-burner is ignited or lit; when  *)
(* it is neither, the tanks' levels go down by these amounts and the      *)
(* thrust level is 0.                                                     *)
C35_UnlitPreburnerStillDrains ==
    SuccessfulTick =>
        /\ PreburnerRequests
        /\ DrainClamped(1)
        /\ DrainClamped(2)
        /\ last.drains[1].before = last.pre.level[fuelTank[last.obj]]
        /\ last.drains[2].before = last.pre.level[oxidizerTank[last.obj]]
        /\ PreburnerUnlit =>
            /\ level[fuelTank[last.obj]] =
                   Sub(last.pre.level[fuelTank[last.obj]], last.drains[1].returned)
            /\ level[oxidizerTank[last.obj]] =
                   Sub(last.pre.level[oxidizerTank[last.obj]], last.drains[2].returned)
            /\ preburnerCombustion[last.obj] = Zero
            /\ chamberCombustion[last.obj] = Zero
            /\ thrustLevel(last.obj) = Zero

(* A tick at full throttle of an engine whose pre-burner is neither       *)
(* ignited nor lit: both tanks are lower than before and the thrust level *)
(* is 0.                                                                  *)
C35_Witness ==
    /\ SuccessfulTick
    /\ PreburnerUnlit
    /\ throttle[last.obj] = One
    /\ Gt(last.drains[1].returned, Zero)
    /\ Gt(last.drains[2].returned, Zero)
    /\ Lt(level["fuelTank"], last.pre.level["fuelTank"])
    /\ Lt(level["oxidizerTank"], last.pre.level["oxidizerTank"])
    /\ thrustLevel(last.obj) = Zero

(* ------------------------------------------------------------------ *)
(* Throttle, pre-burner, chamber                                          *)
(* ------------------------------------------------------------------ *)

RegisteredBefore(a, b) ==
    /\ Registrations(a) = 1
    /\ Registrations(b) = 1
    /\ \E i, j \in 1..Len(temporals) : i < j /\ temporals[i] = a /\ temporals[j] = b

(* Engines a and b have the same throttle and tanks and are both ignited  *)
(* (their design constants are the same by construction).                 *)
Twins(a, b) ==
    /\ throttle[a] = throttle[b]
    /\ Connected(a) /\ Connected(b)
    /\ fuelTank[a] = fuelTank[b]
    /\ oxidizerTank[a] = oxidizerTank[b]
    /\ preburnerIgnition[a] /\ preburnerIgnition[b]
    /\ chamberIgnition[a] /\ chamberIgnition[b]

(* C38: two identical, ignited engines at the same throttle sharing their *)
(* tanks on one Clock, with no fills: after every firing the combustion   *)
(* levels and the thrust level of the one registered later are at most    *)
(* those of the one registered earlier.                                   *)
C38_LaterEngineNeverAhead ==
    \A a, b \in Engines :
        (last.op = "firing" /\ RegisteredBefore(a, b) /\ Twins(a, b)) =>
            /\ Le(preburnerCombustion[b], preburnerCombustion[a])
            /\ Le(chamberCombustion[b], chamberCombustion[a])
            /\ Le(thrustLevel(b), thrustLevel(a))

(* A firing, not the first, that served the earlier engine's pre-burner   *)
(* in full and left the later engine with less: its levels are lower.     *)
C38_Witness ==
    /\ last.op = "firing"
    /\ nticks >= 2
    /\ temporals = <<"engineL", "engineR">>
    /\ Twins("engineL", "engineR")
    /\ last.pre.pbc["engineL"] = last.pre.pbc["engineR"]
    /\ last.pre.chc["engineL"] = last.pre.chc["engineR"]
    /\ preburnerCombustion["engineL"] = throttle["engineL"]
    /\ Lt(preburnerCombustion["engineR"], preburnerCombustion["engineL"])
    /\ Lt(chamberCombustion["engineR"], chamberCombustion["engineL"])
    /\ Lt(thrustLevel("engineR"), thrustLevel("engineL"))

====
